---- MODULE Spec2Model ----
(***************************************************************************)
(* A model of src/app.js: an express application over one mongoose         *)
(* collection of Transaction documents.  GET /seed refills the collection  *)
(* from a remote JSON resource; GET /transactions, /statistics, /barchart, *)
(* /piechart and /alldata query it.                                        *)
(*                                                                         *)
(* The collection is a sequence of documents in insertion order (the order *)
(* an unsorted find returns).  Time is counted in ticks since the start of *)
(* the modelled year, TicksPerDay ticks to a day, the last tick of a day   *)
(* standing for 23:59:59.999.  A query-string parameter is <<>> when it is *)
(* absent and <<v>> when it is given.  Texts are sequences of characters.  *)
(*                                                                         *)
(* The handler of /seed is modelled await by await, so that requests       *)
(* interleave where the event loop lets them.  The five query handlers are *)
(* modelled as one step each: every claim about them is about a store that *)
(* does not change while they run.                                         *)
(***************************************************************************)
EXTENDS Integers, Sequences, FiniteSets, TLC

\* ------------------------------------------------------------------ bounds

\* /seed requests that may be in flight together
NumSeeds == 2
\* items of the remote dataset
NumItems == 2
\* documents in the collection before the first request
MaxInitial == 1
\* months a request may name ("YYYY-01" .. "YYYY-0n")
NumMonths == 3
\* clock resolution
TicksPerDay == 2
\* documents handed to the aggregation stages when they are checked alone
MaxDocs == 3
\* page numbers and page sizes tried on the listing
MaxPage == 3

\* ------------------------------------------------------------------ dates

\* new Date(s) of a string that does not parse: the time value is NaN
InvalidDate == -1

DaysInMonth(m) ==
    CASE m = 2 -> 28
      [] m \in {4, 6, 9, 11} -> 30
      [] OTHER -> 31

RECURSIVE DaysBefore(_)
DaysBefore(m) ==
    IF m <= 1 THEN 0 ELSE DaysBefore(m - 1) + DaysInMonth(m - 1)

MonthStart(m) ==
    TicksPerDay * DaysBefore(m)

\* The template `${month}`: the parameter as text, "undefined" when absent.
MonthOnly(month) ==
    IF month = <<>> THEN [form |-> "undefined"]
    ELSE [form |-> "YYYY-MM", m |-> month[1]]

\* The template `${month}-31T23:59:59.999Z`.
MonthEnd31(month) ==
    IF month = <<>> THEN [form |-> "undefined-31T23:59:59.999Z"]
    ELSE [form |-> "YYYY-MM-DDTHH:mm:ss.sssZ", m |-> month[1], d |-> 31,
          t |-> TicksPerDay - 1]

\* new Date(string).  The engine's ISO parser takes a month 1..12 and a day
\* 1..31 and lets a day past the month's end run into the next month.
NewDate(s) ==
    CASE s.form = "YYYY-MM" ->
             IF s.m \in 1..12 THEN MonthStart(s.m) ELSE InvalidDate
      [] s.form = "YYYY-MM-DDTHH:mm:ss.sssZ" ->
             IF s.m \in 1..12 /\ s.d \in 1..31 /\ s.t \in 0..(TicksPerDay - 1)
             THEN MonthStart(s.m) + (s.d - 1) * TicksPerDay + s.t
             ELSE InvalidDate
      [] OTHER -> InvalidDate

\* ------------------------------------------------------------------ data

Digit(i) ==
    CASE i = 1 -> "1" [] i = 2 -> "2" [] i = 3 -> "3" [] i = 4 -> "4"
      [] OTHER -> "9"

ItemDate(i) ==
    CASE i = 1 -> [form |-> "YYYY-MM-DDTHH:mm:ss.sssZ", m |-> 3, d |-> 15, t |-> 0]
      [] i = 2 -> [form |-> "YYYY-MM-DDTHH:mm:ss.sssZ", m |-> 2, d |-> 28,
                   t |-> TicksPerDay - 1]
      [] OTHER -> [form |-> "YYYY-MM-DDTHH:mm:ss.sssZ", m |-> 1, d |-> 1, t |-> 0]

ItemPrice(i) ==
    CASE i = 1 -> 100 [] i = 2 -> 950 [] OTHER -> 101

\* The i-th item of the remote JSON resource (dateOfSale is still a string).
Item(i) ==
    [title |-> <<"T", Digit(i)>>,
     description |-> <<"d", Digit(i)>>,
     price |-> ItemPrice(i),
     dateOfSale |-> ItemDate(i),
     category |-> IF i % 2 = 1 THEN "men" ELSE "women",
     sold |-> (i % 2 = 1)]

\* response.data of axios.get(apiUrl)
Data ==
    [i \in 1..NumItems |-> Item(i)]

\* A document built with the start of the month for its date of sale.
NewTransactionMonthOnly(item) ==
    [title |-> item.title,
     description |-> item.description,
     price |-> item.price,
     dateOfSale |-> NewDate([form |-> "YYYY-MM", m |-> item.dateOfSale.m]),
     category |-> item.category,
     sold |-> item.sold]

\* new Transaction({...}) of one item
NewTransaction(item) ==
    [title |-> item.title,
     description |-> item.description,
     price |-> item.price,
     dateOfSale |-> NewDate(item.dateOfSale),
     category |-> item.category,
     sold |-> item.sold]

\* Documents an earlier run may have left in the collection.
OldDocs ==
    { [title |-> <<"O", "a">>, description |-> <<"x">>, price |-> 50,
       dateOfSale |-> MonthStart(3) + 30 * TicksPerDay, category |-> "old",
       sold |-> TRUE],
      [title |-> <<"o", "b">>, description |-> <<"A">>, price |-> 200,
       dateOfSale |-> MonthStart(1), category |-> "old", sold |-> FALSE] }

RECURSIVE SeqsUpTo(_, _)
SeqsUpTo(S, n) ==
    IF n = 0 THEN {<<>>}
    ELSE LET shorter == SeqsUpTo(S, n - 1)
         IN  shorter \cup {Append(s, x) : s \in {t \in shorter : Len(t) = n - 1}, x \in S}

Requests == 1..NumSeeds

VARIABLES
    store,      \* the transactions collection
    pc,         \* pc[r]: where /seed request r stands
    idx,        \* idx[r]: the item the for loop of request r saves next
    sent,       \* sent[r]: the responses request r has sent
    completed,  \* completed[r]: the awaited calls of request r that returned
    failed,     \* failed[r]: the awaited call of request r that threw, or "none"
    solo,       \* solo[r]: no other /seed request was in flight during r
    before,     \* before[r]: the collection when a solo request r arrived
    after,      \* after[r]: the collection when a solo request r responded
    last,       \* the latest query request and its response
    matched     \* the documents a query matched, when a stage is checked alone

vars == <<store, pc, idx, sent, completed, failed, before, after, solo, last, matched>>

seedVars == <<pc, idx, sent, completed, failed, before, after, solo>>

\* ------------------------------------------------------------------ GET /seed

\* res.json({ message: 'Database seeded successfully!' })
SuccessResponse ==
    [status |-> 200, body |-> [message |-> "Database seeded successfully!"]]

\* error.message of what the awaited call threw
ErrorMessage(call) ==
    <<call, "threw">>

\* A catch block that answers as if nothing had been thrown.
SeedCatchAnswersSuccess(call) ==
    SuccessResponse

\* catch (error) { res.status(500).json({ error: error.message }) }
SeedCatch(call) ==
    [status |-> 500, body |-> [error |-> ErrorMessage(call)]]

\* A deleteMany that deletes nothing.
DeleteManyKeepsAll(coll) ==
    coll

\* Transaction.deleteMany({}) that returns
DeleteMany(coll) ==
    <<>>

\* A save that returns without storing the document.
SaveStoresNothing(coll, doc) ==
    coll

\* newItem.save() that returns
Save(coll, doc) ==
    Append(coll, doc)

InFlight(r) ==
    pc[r] \notin {"idle", "done"}

\* The request arrives; the handler calls axios.get(apiUrl) and awaits it.
SeedStart(r) ==
    /\ pc[r] = "idle"
    /\ pc' = [pc EXCEPT ![r] = "fetch"]
    /\ solo' = [q \in Requests |->
                   IF q = r THEN \A o \in Requests \ {r} : ~InFlight(o)
                   ELSE IF InFlight(q) THEN FALSE ELSE solo[q]]
    /\ before' = [q \in Requests |->
                     IF q = r /\ solo'[r] THEN store
                     ELSE IF solo'[q] THEN before[q] ELSE <<>>]
    /\ UNCHANGED <<store, idx, sent, completed, failed, after, last, matched>>

\* The handler leaves through the catch block.
SeedThrow(r, call, coll) ==
    /\ store' = coll
    /\ failed' = [failed EXCEPT ![r] = call]
    /\ sent' = [sent EXCEPT ![r] = Append(@, SeedCatch(call))]
    /\ pc' = [pc EXCEPT ![r] = "done"]
    /\ after' = [after EXCEPT ![r] = IF solo[r] THEN coll ELSE <<>>]
    /\ UNCHANGED <<idx, completed, before, solo, last, matched>>

\* The handler leaves through res.json of the success message.
SeedSucceed(r, call, coll) ==
    /\ store' = coll
    /\ completed' = [completed EXCEPT ![r] = Append(@, call)]
    /\ sent' = [sent EXCEPT ![r] = Append(@, SuccessResponse)]
    /\ pc' = [pc EXCEPT ![r] = "done"]
    /\ after' = [after EXCEPT ![r] = IF solo[r] THEN coll ELSE <<>>]
    /\ UNCHANGED <<idx, failed, before, solo, last, matched>>

\* axios.get returns: data = response.data, then deleteMany is awaited.
SeedFetchOk(r) ==
    /\ pc[r] = "fetch"
    /\ pc' = [pc EXCEPT ![r] = "delete"]
    /\ completed' = [completed EXCEPT ![r] = Append(@, "fetch")]
    /\ UNCHANGED <<store, idx, sent, failed, before, after, solo, last, matched>>

\* axios.get throws.
SeedFetchFail(r) ==
    /\ pc[r] = "fetch"
    /\ SeedThrow(r, "fetch", store)

\* deleteMany returns: the loop starts, or ends at once on an empty dataset.
SeedDeleteOk(r) ==
    /\ pc[r] = "delete"
    /\ IF Len(Data) = 0
       THEN SeedSucceed(r, "delete", DeleteMany(store))
       ELSE /\ store' = DeleteMany(store)
            /\ pc' = [pc EXCEPT ![r] = "save"]
            /\ idx' = [idx EXCEPT ![r] = 1]
            /\ completed' = [completed EXCEPT ![r] = Append(@, "delete")]
            /\ UNCHANGED <<sent, failed, before, after, solo, last, matched>>

\* deleteMany throws.  The command is taken to have failed as a whole, with
\* no document deleted.
SeedDeleteFail(r) ==
    /\ pc[r] = "delete"
    /\ SeedThrow(r, "delete", store)

\* newItem.save() returns: the next item, or the success message after the last.
SeedSaveOk(r) ==
    /\ pc[r] = "save"
    /\ LET saved == Save(store, NewTransaction(Data[idx[r]]))
       IN  IF idx[r] = Len(Data)
           THEN SeedSucceed(r, "save", saved)
           ELSE /\ store' = saved
                /\ idx' = [idx EXCEPT ![r] = @ + 1]
                /\ completed' = [completed EXCEPT ![r] = Append(@, "save")]
                /\ UNCHANGED <<pc, sent, failed, before, after, solo, last, matched>>

\* newItem.save() throws.
SeedSaveFail(r) ==
    /\ pc[r] = "save"
    /\ SeedThrow(r, "save", store)

\* ------------------------------------------------------------------ queries

Min(a, b) ==
    IF a <= b THEN a ELSE b

\* dateOfSale: { $gte: new Date(`${month}`), $lt: new Date(`${month}`) }
MonthQuery(month) ==
    [gte |-> NewDate(MonthOnly(month)), lt |-> NewDate(MonthOnly(month))]

\* dateOfSale: { $gte: new Date(`${month}`), $lt: new Date(`${month}-31T23:59:59.999Z`) }
MonthQuery31(month) ==
    [gte |-> NewDate(MonthOnly(month)), lt |-> NewDate(MonthEnd31(month))]

\* mongoose casts the bounds to the Date path and throws on an Invalid Date;
\* no handler but /seed catches, so the request gets no response.
CastError(q) ==
    q.gte = InvalidDate \/ q.lt = InvalidDate

Unhandled ==
    [unhandled |-> "CastError"]

MatchDate(doc, q) ==
    q.gte <= doc.dateOfSale /\ doc.dateOfSale < q.lt

Lower(c) ==
    CASE c = "A" -> "a" [] c = "D" -> "d" [] c = "O" -> "o" [] c = "T" -> "t"
      [] OTHER -> c

LowerText(text) ==
    [i \in DOMAIN text |-> Lower(text[i])]

\* { $regex: search, $options: 'i' } on a text field, search being plain text
RegexI(text, search) ==
    \E i \in 0..(Len(text) - Len(search)) :
        SubSeq(LowerText(text), i + 1, i + Len(search)) = LowerText(search)

\* query.$or of /transactions.  A $regex matches strings only, so the clause
\* on the numeric price selects nothing.
MatchSearch(doc, search) ==
    \/ RegexI(doc.title, search)
    \/ RegexI(doc.description, search)
    \/ FALSE

\* The query object of /transactions.
MatchTransactions(doc, search, month) ==
    /\ MatchDate(doc, MonthQuery(month))
    /\ search # <<>> => MatchSearch(doc, search)

\* const { page = 1, perPage = 10 } = req.query, as numbers
PageOf(page) ==
    IF page = <<>> THEN 1 ELSE page[1]

PerPageOf(perPage) ==
    IF perPage = <<>> THEN 10 ELSE perPage[1]

\* .skip(n)
Skip(docs, n) ==
    SubSeq(docs, n + 1, Len(docs))

\* .limit(n), n >= 1
Limit(docs, n) ==
    SubSeq(docs, 1, Min(n, Len(docs)))

\* A listing that skips page * perPage documents.
PaginateSkipsPage(docs, page, perPage) ==
    Limit(Skip(docs, PageOf(page) * PerPageOf(perPage)), PerPageOf(perPage))

\* find(query).skip((page - 1) * perPage).limit(parseInt(perPage)) of the
\* documents the query matches
Paginate(docs, page, perPage) ==
    Limit(Skip(docs, (PageOf(page) - 1) * PerPageOf(perPage)), PerPageOf(perPage))

\* GET /transactions
Transactions(coll, page, perPage, search, month) ==
    IF CastError(MonthQuery(month)) THEN Unhandled
    ELSE Paginate(SelectSeq(coll, LAMBDA d : MatchTransactions(d, search, month)),
                  page, perPage)

RECURSIVE SumPrice(_)
SumPrice(docs) ==
    IF docs = <<>> THEN 0 ELSE Head(docs).price + SumPrice(Tail(docs))

\* aggregate([{ $match }, { $group: { _id: null, total: { $sum: '$price' } } }])
\* of the documents $match lets through: no group when there is none
GroupTotal(docs) ==
    IF docs = <<>> THEN <<>> ELSE <<[total |-> SumPrice(docs)]>>

\* totalSaleAmount[0]?.total || 0
TotalOrZero(groups) ==
    IF groups = <<>> THEN 0
    ELSE IF groups[1].total = 0 THEN 0 ELSE groups[1].total

\* A count that asks for sold: true whatever the flag.
CountSoldAlwaysTrue(docs, flag) ==
    Len(SelectSeq(docs, LAMBDA d : d.sold = TRUE))

\* countDocuments({ ...query, sold: flag }) of the documents query matches
CountSold(docs, flag) ==
    Len(SelectSeq(docs, LAMBDA d : d.sold = flag))

\* The response of /statistics, from the documents its query matches.
StatisticsOf(docs) ==
    [totalSaleAmount |-> TotalOrZero(GroupTotal(docs)),
     totalSoldItems |-> CountSold(docs, TRUE),
     totalNotSoldItems |-> CountSold(docs, FALSE)]

\* GET /statistics
Statistics(coll, month) ==
    IF CastError(MonthQuery(month)) THEN Unhandled
    ELSE StatisticsOf(SelectSeq(coll, LAMBDA d : MatchDate(d, MonthQuery(month))))

Infinity == 1000001

NumberMaxValue == 1000000

priceRanges ==
    << [range |-> "0-100", min |-> 0, max |-> 100],
       [range |-> "101-200", min |-> 101, max |-> 200],
       [range |-> "201-300", min |-> 201, max |-> 300],
       [range |-> "301-400", min |-> 301, max |-> 400],
       [range |-> "401-500", min |-> 401, max |-> 500],
       [range |-> "501-600", min |-> 501, max |-> 600],
       [range |-> "601-700", min |-> 601, max |-> 700],
       [range |-> "701-800", min |-> 701, max |-> 800],
       [range |-> "801-900", min |-> 801, max |-> 900],
       [range |-> "901-above", min |-> 901, max |-> Infinity] >>

\* price: { $gte: range.min, $lt: range.max === Infinity ? Number.MAX_VALUE : range.max }
MatchPrice(doc, range) ==
    /\ range.min <= doc.price
    /\ doc.price < (IF range.max = Infinity THEN NumberMaxValue ELSE range.max)

\* The response of /barchart, from the documents its month query matches.
BarChartOf(docs) ==
    [i \in DOMAIN priceRanges |->
        [range |-> priceRanges[i].range,
         count |-> Len(SelectSeq(docs, LAMBDA d : MatchPrice(d, priceRanges[i])))]]

\* GET /barchart
BarChart(coll, month) ==
    IF CastError(MonthQuery(month)) THEN Unhandled
    ELSE BarChartOf(SelectSeq(coll, LAMBDA d : MatchDate(d, MonthQuery(month))))

\* aggregate([{ $match }, { $group: { _id: '$category', count: { $sum: 1 } } }])
\* of the documents $match lets through; the groups come in no stated order
PieChartOf(docs) ==
    { [_id |-> c, count |-> Len(SelectSeq(docs, LAMBDA d : d.category = c))] :
        c \in {docs[i].category : i \in DOMAIN docs} }

\* GET /piechart
PieChart(coll, month) ==
    IF CastError(MonthQuery(month)) THEN Unhandled
    ELSE PieChartOf(SelectSeq(coll, LAMBDA d : MatchDate(d, MonthQuery(month))))

\* countDocuments of /alldata: its own date range, and sold: flag
AllDataCountSold(coll, month, flag) ==
    Len(SelectSeq(coll, LAMBDA d : MatchDate(d, MonthQuery31(month)) /\ d.sold = flag))

\* GET /alldata
AllData(coll, month) ==
    IF CastError(MonthQuery(month)) \/ CastError(MonthQuery31(month)) THEN Unhandled
    ELSE LET docs == SelectSeq(coll, LAMBDA d : MatchDate(d, MonthQuery(month)))
         IN  [transactions |-> docs,
              statistics |->
                  [totalSaleAmount |-> TotalOrZero(GroupTotal(docs)),
                   totalSoldItems |-> AllDataCountSold(coll, month, TRUE),
                   totalNotSoldItems |-> AllDataCountSold(coll, month, FALSE)],
              barChart |-> BarChartOf(docs),
              pieChart |-> PieChartOf(docs)]

\* A query handler that empties the collection.
QueriedEmpties(coll) ==
    <<>>

\* find, aggregate and countDocuments, the only collection methods the five
\* query handlers call, leave the collection as it is.
Queried(coll) ==
    coll

Months ==
    {<<>>} \cup {<<m>> : m \in 1..NumMonths}

Pages ==
    {<<>>} \cup {<<n>> : n \in 1..MaxPage}

Searches ==
    {<<>>, <<"t", "1">>}

GetTransactions ==
    /\ \E page \in Pages, perPage \in {<<>>, <<1>>}, search \in Searches, month \in Months :
           last' = [kind |-> "transactions", month |-> month, page |-> page,
                    perPage |-> perPage, search |-> search,
                    resp |-> Transactions(store, page, perPage, search, month)]
    /\ store' = Queried(store)
    /\ UNCHANGED <<seedVars, matched>>

GetStatistics ==
    /\ \E month \in Months :
           last' = [kind |-> "statistics", month |-> month,
                    resp |-> Statistics(store, month)]
    /\ store' = Queried(store)
    /\ UNCHANGED <<seedVars, matched>>

GetBarChart ==
    /\ \E month \in Months :
           last' = [kind |-> "barchart", month |-> month,
                    resp |-> BarChart(store, month)]
    /\ store' = Queried(store)
    /\ UNCHANGED <<seedVars, matched>>

GetPieChart ==
    /\ \E month \in Months :
           last' = [kind |-> "piechart", month |-> month,
                    resp |-> PieChart(store, month)]
    /\ store' = Queried(store)
    /\ UNCHANGED <<seedVars, matched>>

GetAllData ==
    /\ \E month \in Months :
           last' = [kind |-> "alldata", month |-> month,
                    resp |-> AllData(store, month)]
    /\ store' = Queried(store)
    /\ UNCHANGED <<seedVars, matched>>

Query ==
    \/ GetTransactions
    \/ GetStatistics
    \/ GetBarChart
    \/ GetPieChart
    \/ GetAllData

\* One step of the handler of /seed for request r.
SeedStep(r) ==
    \/ SeedStart(r)
    \/ SeedFetchOk(r)
    \/ SeedFetchFail(r)
    \/ SeedDeleteOk(r)
    \/ SeedDeleteFail(r)
    \/ SeedSaveOk(r)
    \/ SeedSaveFail(r)

Seed ==
    \E r \in Requests : SeedStep(r)

\* ------------------------------------------------------------------ stages alone

\* Documents a month query may let through.
StageDocs ==
    OldDocs \cup {NewTransaction(Item(i)) : i \in 1..3}

\* The aggregation of /statistics applied to the matched documents.
StageStatistics ==
    /\ last' = [kind |-> "statistics", resp |-> StatisticsOf(matched)]
    /\ UNCHANGED <<store, seedVars, matched>>

\* The ten counts of /barchart applied to the matched documents.
StageBarChart ==
    /\ last' = [kind |-> "barchart", resp |-> BarChartOf(matched)]
    /\ UNCHANGED <<store, seedVars, matched>>

\* The skip and limit of /transactions applied to the matched documents.
StagePaginate ==
    /\ \E page \in Pages, perPage \in Pages :
           last' = [kind |-> "transactions", page |-> page, perPage |-> perPage,
                    resp |-> Paginate(matched, page, perPage)]
    /\ UNCHANGED <<store, seedVars, matched>>

\* ------------------------------------------------------------------ specifications

Idle ==
    /\ pc = [r \in Requests |-> "idle"]
    /\ idx = [r \in Requests |-> 1]
    /\ sent = [r \in Requests |-> <<>>]
    /\ completed = [r \in Requests |-> <<>>]
    /\ failed = [r \in Requests |-> "none"]
    /\ before = [r \in Requests |-> <<>>]
    /\ after = [r \in Requests |-> <<>>]
    /\ solo = [r \in Requests |-> FALSE]
    /\ last = [kind |-> "none"]

Init ==
    /\ store \in SeqsUpTo(OldDocs, MaxInitial)
    /\ Idle
    /\ matched = <<>>

\* One /seed request and any number of query requests, in any order.
Next ==
    \/ SeedStep(1)
    \/ Query

Spec ==
    Init /\ [][Next]_vars

\* The /seed requests alone, their awaited steps interleaved freely.
SpecSeed ==
    Init /\ [][Seed]_vars

InitStage ==
    /\ store = <<>>
    /\ Idle
    /\ matched \in SeqsUpTo(StageDocs, MaxDocs)

NextStage ==
    \/ StageStatistics
    \/ StageBarChart
    \/ StagePaginate

\* The aggregation stages of the query handlers, on any matched documents.
SpecStage ==
    InitStage /\ [][NextStage]_vars

\* ------------------------------------------------------------------ properties

Succeeded(r) ==
    pc[r] = "done" /\ sent[r] = <<SuccessResponse>>

Failed500(r) ==
    pc[r] = "done" /\ Len(sent[r]) = 1 /\ sent[r][1].status = 500

\* The stored document carries the item's fields, its date the item's date.
SameAsItem(doc, item) ==
    /\ doc.title = item.title
    /\ doc.description = item.description
    /\ doc.price = item.price
    /\ doc.dateOfSale = NewDate(item.dateOfSale)
    /\ doc.category = item.category
    /\ doc.sold = item.sold

Copies(coll, item) ==
    Cardinality({k \in DOMAIN coll : SameAsItem(coll[k], item)})

\* The collection is one copy of the dataset and nothing else.
SeededOnce(coll) ==
    /\ Len(coll) = Len(Data)
    /\ \A i \in DOMAIN Data : Copies(coll, Data[i]) = 1

\* C1: a /seed request that ran with no other /seed request in flight and
\* answered with the success message left the collection holding exactly one
\* document per item of the dataset, with the item's fields, and none of the
\* documents stored before it.
C1_SoloSeedReplaces ==
    \A r \in Requests : Succeeded(r) /\ solo[r] => SeededOnce(after[r])

C1_Witness ==
    \E r \in Requests :
        /\ Succeeded(r) /\ solo[r]
        /\ before[r] # <<>>
        /\ Len(after[r]) = NumItems

\* C8: every /seed request that has ended sent exactly one response; a request
\* whose fetch, deleteMany or save threw sent status 500 with the exception
\* message; the success message was sent only after the fetch, the deleteMany
\* and the save of every item returned.
C8_SeedCatchesEveryError ==
    \A r \in Requests :
        /\ Len(sent[r]) <= 1
        /\ (pc[r] = "done") <=> (Len(sent[r]) = 1)
        /\ failed[r] # "none" =>
               sent[r] = <<[status |-> 500, body |-> [error |-> <<failed[r], "threw">>]]>>
        /\ failed[r] = "none" /\ pc[r] = "done" => sent[r] = <<SuccessResponse>>
        /\ sent[r] = <<SuccessResponse>> =>
               /\ failed[r] = "none"
               /\ completed[r] = <<"fetch", "delete">> \o [i \in 1..NumItems |-> "save"]

C8_Witness ==
    \E r, q \in Requests :
        /\ failed[r] = "save" /\ idx[r] = NumItems /\ Failed500(r)
        /\ Succeeded(q)

AllSucceeded ==
    \A r \in Requests : Succeeded(r)

\* C9 as stated: once every one of the interleaved /seed requests has answered
\* with success, the collection is exactly one copy of the dataset.
C9_InterleavedSeedsLeaveOneCopy ==
    AllSucceeded => SeededOnce(store)

\* C9 amended: once every one of the interleaved /seed requests has answered
\* with success, the collection holds only documents of the dataset, each item
\* at least once and at most once per request.
C9_InterleavedSeedsLeaveCopies ==
    AllSucceeded =>
        /\ \A k \in DOMAIN store : \E i \in DOMAIN Data : SameAsItem(store[k], Data[i])
        /\ \A i \in DOMAIN Data :
               Copies(store, Data[i]) >= 1 /\ Copies(store, Data[i]) <= NumSeeds

C9_Witness ==
    /\ AllSucceeded
    /\ \E i \in DOMAIN Data : Copies(store, Data[i]) = NumSeeds
    /\ \E r \in Requests : ~solo[r]

\* C10 as stated: a /seed request that ran with no other /seed request in
\* flight and answered with status 500 left the collection as it found it.
C10_FailedSeedLeavesStore ==
    \A r \in Requests : Failed500(r) /\ solo[r] => after[r] = before[r]

\* C10 amended: such a request left the collection as it found it when the
\* fetch threw; when deleteMany threw it left no document that was not stored
\* before; when the save of the k-th item threw it left exactly the documents
\* of the first k - 1 items and none of those stored before.
C10_FailedSeedLeavesWhatItReached ==
    \A r \in Requests :
        Failed500(r) /\ solo[r] =>
            /\ failed[r] = "fetch" => after[r] = before[r]
            /\ failed[r] = "delete" =>
                   /\ Len(after[r]) <= Len(before[r])
                   /\ \A k \in DOMAIN after[r] : \E j \in DOMAIN before[r] :
                          after[r][k] = before[r][j]
            /\ failed[r] = "save" =>
                   /\ Len(after[r]) = idx[r] - 1
                   /\ \A i \in 1..(idx[r] - 1) : SameAsItem(after[r][i], Data[i])

C10_Witness ==
    \E r \in Requests :
        /\ Failed500(r) /\ solo[r]
        /\ failed[r] = "save" /\ idx[r] = NumItems
        /\ before[r] # <<>>
        /\ Len(after[r]) = NumItems - 1

\* C2: a step that answers a query leaves the collection as it is, and every
\* step that changes the collection is a step of a /seed request.
C2_QueriesReadOnly ==
    [][ /\ last' # last => store' = store
        /\ store' # store => (pc' # pc \/ idx' # idx) ]_vars

C2_Witness ==
    /\ last.kind = "alldata"
    /\ last.month # <<>>
    /\ pc[1] = "save"
    /\ store # <<>>

\* The documents of the collection whose date of sale lies in the month.
InMonth(coll, m) ==
    SelectSeq(coll, LAMBDA d :
        /\ MonthStart(m) <= d.dateOfSale
        /\ d.dateOfSale < MonthStart(m) + DaysInMonth(m) * TicksPerDay)

MonthScoped ==
    {"transactions", "statistics", "barchart", "piechart"}

\* C3: for a month-scoped request that names a valid month, the documents the
\* handler's date filter selects are exactly the stored documents whose date
\* of sale lies in that month.
C3_MonthFilterSelectsMonth ==
    last.kind \in MonthScoped /\ last.month # <<>> =>
        SelectSeq(store, LAMBDA d : MatchDate(d, MonthQuery(last.month)))
            = InMonth(store, last.month[1])

\* C4: for a valid month, the response of /alldata is made of the responses
\* of /statistics, /barchart and /piechart and the whole month-filtered
\* listing of /transactions for the same month and the same collection.
C4_AllDataIsComposite ==
    last.kind = "alldata" /\ last.month # <<>> =>
        LET all == AllData(store, last.month)
        IN  /\ all.statistics = Statistics(store, last.month)
            /\ all.barChart = BarChart(store, last.month)
            /\ all.pieChart = PieChart(store, last.month)
            /\ all.transactions = Transactions(store, <<>>, <<>>, <<>>, last.month)

RECURSIVE PriceTotal(_, _)
PriceTotal(docs, K) ==
    IF K = {} THEN 0
    ELSE LET k == CHOOSE x \in K : TRUE
         IN  docs[k].price + PriceTotal(docs, K \ {k})

\* C5: over the documents M the month filter selected, /statistics answers the
\* sum of their prices (0 for none), the number of them with sold = true and
\* the number with sold = false, the two numbers adding up to |M|.
C5_StatisticsOverSelected ==
    last.kind = "statistics" =>
        /\ last.resp.totalSaleAmount = PriceTotal(matched, DOMAIN matched)
        /\ last.resp.totalSoldItems
               = Cardinality({k \in DOMAIN matched : matched[k].sold = TRUE})
        /\ last.resp.totalNotSoldItems
               = Cardinality({k \in DOMAIN matched : matched[k].sold = FALSE})
        /\ last.resp.totalSoldItems + last.resp.totalNotSoldItems = Len(matched)

C5_Witness ==
    /\ last.kind = "statistics"
    /\ Len(matched) = MaxDocs
    /\ last.resp.totalSoldItems >= 1
    /\ last.resp.totalNotSoldItems >= 1
    /\ last.resp.totalSaleAmount > 0

RangeLabels ==
    <<"0-100", "101-200", "201-300", "301-400", "401-500", "501-600",
      "601-700", "701-800", "801-900", "901-above">>

\* The i-th labelled range with both ends included.
InLabelledRange(price, i) ==
    IF i = 10 THEN price >= 901
    ELSE (IF i = 1 THEN 0 ELSE 100 * (i - 1) + 1) <= price /\ price <= 100 * i

RECURSIVE SumCounts(_, _)
SumCounts(chart, n) ==
    IF n = 0 THEN 0 ELSE chart[n].count + SumCounts(chart, n - 1)

Max(a, b) ==
    IF a >= b THEN a ELSE b

RECURSIVE PagesUpTo(_, _, _)
PagesUpTo(docs, n, perPage) ==
    IF n = 0 THEN <<>>
    ELSE PagesUpTo(docs, n - 1, perPage) \o Paginate(docs, <<n>>, <<perPage>>)

\* C7: for page >= 1 and perPage >= 1 (1 and 10 when absent) the listing is
\* the matching documents from offset (page - 1) * perPage on, at most perPage
\* of them; the pages 1, 2, ... taken in order are the whole list, no document
\* twice.
C7_ListingIsPaginated ==
    /\ last.kind = "transactions" =>
           LET page == IF last.page = <<>> THEN 1 ELSE last.page[1]
               perPage == IF last.perPage = <<>> THEN 10 ELSE last.perPage[1]
               offset == (page - 1) * perPage
               size == Max(0, Min(perPage, Len(matched) - offset))
           IN  last.resp = [i \in 1..size |-> matched[offset + i]]
    /\ \A perPage \in 1..MaxPage :
           PagesUpTo(matched, Len(matched) + 1, perPage) = matched

C7_Witness ==
    /\ last.kind = "transactions"
    /\ last.page = <<2>> /\ last.perPage = <<2>>
    /\ Len(matched) = 3
    /\ last.resp = <<matched[3]>>

====
